---- MODULE Spec2Model ----
(***************************************************************************)
(* Model of bsm-fetcher.py: the retrying HTTP fetcher                      *)
(* (fetch_api_with_retry) and the match aggregation loop of                *)
(* get_structure_by_organization.                                          *)
(***************************************************************************)
EXTENDS Integers, Sequences, FiniteSets, TLC

VARIABLES
    max_retries,   \* fetch_api_with_retry: the max_retries argument
    attempt,       \* fetch_api_with_retry: number of loop iterations started
    outcomes,      \* outcome of each requests.get call so far, in order
    slept,         \* slept[j]: arguments of the time.sleep calls made in
                   \* iteration j, after its requests.get call
    fres,          \* "running", or what the call ended with
    matches,       \* get_structure_by_organization: matches iterated so far
    leagues_dict,  \* get_structure_by_organization: leagues_dict
    apc,           \* "loop" while iterating matches, "done" after the sort
    n_orgs,        \* main / build_structure: len(organizations), total_orgs
    current_org,   \* build_structure: current_org
    organizations, \* build_structure: structure['organizations']
    successful,    \* structure['metadata']['successful_organizations']
    failed,        \* structure['metadata']['failed_organizations']
    resps,         \* what each organization processed so far met, in order
    blog,          \* build_structure: fetches started and pacing sleeps, in order
    mpc,           \* main: where the run stands
    save_ret,      \* save_structure: "running", or how the call ended
    failed_step,   \* save_structure: the step that failed, "none" if none did
    snapshot,      \* disk: what the year's snapshot path holds
    tmpfile,       \* disk: what the .tmp path holds
    had_prior,     \* disk: a snapshot for the year existed when the run began
    seen,          \* a concurrent reader's latest view of the snapshot path
    exitcode       \* process exit code, -1 while the run goes on

fetchVars == <<max_retries, attempt, outcomes, slept, fres>>
aggVars == <<matches, leagues_dict, apc>>
buildVars == <<n_orgs, current_org, organizations, successful, failed, resps, blog>>
saveVars == <<save_ret, failed_step, snapshot, tmpfile>>
mainVars == <<buildVars, saveVars, mpc, had_prior, seen, exitcode>>

vars == <<max_retries, attempt, outcomes, slept, fres,
          matches, leagues_dict, apc, mainVars>>

----------------------------------------------------------------------------
(* Bounds *)

\* largest max_retries argument explored
MaxBudget == 3

\* longest match list explored
MaxMatches == 2

\* most team objects (home and away sides together) in a match list
MaxSides == 2

\* most organizations in the configuration
MaxOrgs == 3

----------------------------------------------------------------------------
(* fetch_api_with_retry *)

RETRY_DELAY == 10

\* HTTP status codes a response may carry in the model
Statuses == {200, 204, 301, 400, 403, 404, 429, 500, 502, 503}

\* What one requests.get call can end in: a response with a status code, or
\* one of the exceptions the function catches.
Outcomes ==
    [kind : {"status"}, code : Statuses]
        \cup [kind : {"timeout", "connection_error", "request_exception"}, code : {0}]

StatusOutcome(c) == [kind |-> "status", code |-> c]

\* Response.raise_for_status(): raises HTTPError for 4xx and 5xx codes and
\* returns normally for every other code.
RaiseForStatusRaises(code) == code >= 400 /\ code < 600

\* Variant of BackoffDelay: the delay does not grow with the attempt number.
BackoffDelayFixed(n) == RETRY_DELAY

\* wait_time of the 429 / 503 / >= 500 branches
BackoffDelay(n) == RETRY_DELAY * n

\* Variant of TransportDelay: the handlers back off like the status branches.
TransportDelayLinear(n) == RETRY_DELAY * n

\* the sleep of the Timeout / ConnectionError handlers
TransportDelay(n) == RETRY_DELAY

\* Variant of RetryOrGiveUp: the last failure is re-raised to the caller.
RetryOrGiveUpRaise(n, budget, delay) ==
    IF n < budget
        THEN [act |-> "continue", sleep |-> <<delay>>]
        ELSE [act |-> "raised", sleep |-> <<>>]

\* The 429, 503 and >= 500 branches: sleep and continue while attempts
\* remain, otherwise return None.
RetryOrGiveUp(n, budget, delay) ==
    IF n < budget
        THEN [act |-> "continue", sleep |-> <<delay>>]
        ELSE [act |-> "none", sleep |-> <<>>]

\* Variant of ClassifyStatus: 404 is retried like the other error codes.
ClassifyStatusRetry404(code, n, budget) ==
    IF code = 200 THEN [act |-> "response", sleep |-> <<>>]
    ELSE IF code = 429 THEN RetryOrGiveUp(n, budget, BackoffDelay(n))
    ELSE IF code = 503 THEN RetryOrGiveUp(n, budget, BackoffDelay(n))
    ELSE IF code = 404 THEN RetryOrGiveUp(n, budget, BackoffDelay(n))
    ELSE IF code >= 500 THEN RetryOrGiveUp(n, budget, BackoffDelay(n))
    ELSE IF RaiseForStatusRaises(code)
        THEN [act |-> "raise_http", sleep |-> <<>>]
        ELSE [act |-> "continue", sleep |-> <<>>]

\* The status-code chain of one loop iteration (attempt number n).
\* act: "response" = return response, "none" = return None,
\*      "continue" = next loop iteration, "raise_http" = raise_for_status raised.
ClassifyStatus(code, n, budget) ==
    IF code = 200 THEN [act |-> "response", sleep |-> <<>>]
    ELSE IF code = 429 THEN RetryOrGiveUp(n, budget, BackoffDelay(n))
    ELSE IF code = 503 THEN RetryOrGiveUp(n, budget, BackoffDelay(n))
    ELSE IF code = 404 THEN [act |-> "none", sleep |-> <<>>]
    ELSE IF code >= 500 THEN RetryOrGiveUp(n, budget, BackoffDelay(n))
    ELSE IF RaiseForStatusRaises(code)
        THEN [act |-> "raise_http", sleep |-> <<>>]
        ELSE [act |-> "continue", sleep |-> <<>>]

\* except requests.exceptions.RequestException: return None.  HTTPError raised
\* by raise_for_status is a RequestException and lands here as well.
OnRequestException == [act |-> "none", sleep |-> <<>>]

\* One loop iteration as a decision: what the body does with outcome o on
\* attempt number n.
Decide(o, n, budget) ==
    IF o.kind = "status"
        THEN LET d == ClassifyStatus(o.code, n, budget)
             IN  IF d.act = "raise_http" THEN OnRequestException ELSE d
    ELSE IF o.kind = "timeout" THEN RetryOrGiveUp(n, budget, TransportDelay(n))
    ELSE IF o.kind = "connection_error" THEN RetryOrGiveUp(n, budget, TransportDelay(n))
    ELSE OnRequestException

\* What the call returns once the for loop runs out of iterations.
AfterLoop == "none"

\* One iteration of "for attempt in range(1, max_retries + 1)".
FetchIteration(o) ==
    /\ fres = "running"
    /\ attempt < max_retries
    /\ LET n == attempt + 1
           d == Decide(o, n, max_retries)
       IN  /\ attempt' = n
           /\ outcomes' = Append(outcomes, o)
           /\ slept' = Append(slept, d.sleep)
           /\ fres' = IF d.act = "continue" THEN "running" ELSE d.act
    /\ UNCHANGED <<max_retries, aggVars, mainVars>>

FetchAttempt == \E o \in Outcomes : FetchIteration(o)

\* The loop is exhausted without a return: the trailing "return None".
FetchExhausted ==
    /\ fres = "running"
    /\ attempt = max_retries
    /\ fres' = AfterLoop
    /\ UNCHANGED <<max_retries, attempt, outcomes, slept, aggVars, mainVars>>

\* the run of main has not begun: nothing loaded, nothing on disk
MainIdle ==
    /\ n_orgs = 0
    /\ current_org = 0
    /\ organizations = <<>>
    /\ successful = 0
    /\ failed = 0
    /\ resps = <<>>
    /\ blog = <<>>
    /\ mpc = "idle"
    /\ save_ret = "running"
    /\ failed_step = "none"
    /\ snapshot = "none"
    /\ tmpfile = "none"
    /\ had_prior = FALSE
    /\ seen = "unread"
    /\ exitcode = -1

InitFetch ==
    /\ max_retries \in 0..MaxBudget
    /\ attempt = 0
    /\ outcomes = <<>>
    /\ slept = <<>>
    /\ fres = "running"
    /\ matches = <<>>
    /\ leagues_dict = <<>>
    /\ apc = "loop"
    /\ MainIdle

NextFetch == FetchAttempt \/ FetchExhausted

SpecFetch == InitFetch /\ [][NextFetch]_vars

\* The loop always moves on: requests.get is bounded by TIMEOUT and every
\* sleep is finite.
SpecFetchFair == SpecFetch /\ WF_vars(NextFetch)

----------------------------------------------------------------------------
(* Properties of fetch_api_with_retry *)

RECURSIVE Flatten(_)
Flatten(ss) == IF ss = <<>> THEN <<>> ELSE Head(ss) \o Flatten(Tail(ss))

\* every time.sleep argument of the call so far, in order
Sleeps == Flatten(slept)

IsStatus(o, c) == o.kind = "status" /\ o.code = c

\* 429, 503, or any other status >= 500
IsRetryableStatus(o) ==
    o.kind = "status" /\ (o.code = 429 \/ o.code = 503 \/ o.code >= 500)

\* 429, 503, other status >= 500, timeout, connection error
IsTransient(o) ==
    IsRetryableStatus(o) \/ o.kind \in {"timeout", "connection_error"}

\* a status that is none of 200, 404, 429, 503 and below 500
IsOtherStatus(o) ==
    o.kind = "status" /\ o.code \notin {200, 404, 429, 503} /\ o.code < 500

C2_NotFoundFailsAtOnce ==
    \A j \in DOMAIN outcomes :
        IsStatus(outcomes[j], 404)
        => /\ j = Len(outcomes)
           /\ attempt = j
           /\ fres = "none"
           /\ slept[j] = <<>>
           /\ (j = 1 => Sleeps = <<>>)

\* C2 witness: [404] with attempts to spare ended in None after one attempt.
C2_Witness ==
    /\ outcomes = <<StatusOutcome(404)>>
    /\ max_retries > 1
    /\ attempt = 1
    /\ fres = "none"
    /\ Sleeps = <<>>

AllTransient == \A j \in DOMAIN outcomes : IsTransient(outcomes[j])

\* C3: the call ends, it never makes more than max_retries attempts, it never
\* raises, and when every outcome was transient it ends in None after exactly
\* max_retries attempts.
C3_BoundedAttemptsThenNone ==
    /\ <>(fres # "running")
    /\ [](/\ attempt <= max_retries
          /\ Len(outcomes) = attempt
          /\ fres \in {"running", "response", "none"}
          /\ (fres # "running" /\ AllTransient)
                => (attempt = max_retries /\ fres = "none"))

\* C3 witness: three transient outcomes used up a budget of three and the
\* call ended in None.
C3_Witness ==
    /\ max_retries = 3
    /\ outcomes = <<StatusOutcome(429), [kind |-> "timeout", code |-> 0],
                    StatusOutcome(500)>>
    /\ fres = "none"

\* C4: after a timeout or a connection error on attempt j the call sleeps
\* exactly RETRY_DELAY and goes on when j < max_retries, and returns None
\* without sleeping when j = max_retries.
C4_FixedDelayOnTransportError ==
    \A j \in DOMAIN outcomes :
        outcomes[j].kind \in {"timeout", "connection_error"}
        => IF j < max_retries
              THEN /\ slept[j] = <<RETRY_DELAY>>
                   /\ (j = Len(outcomes) => fres = "running")
              ELSE /\ slept[j] = <<>>
                   /\ j = Len(outcomes)
                   /\ fres = "none"

\* C4 witness: a timeout and then a connection error, each followed by a
\* sleep of 10, with the third attempt still to come.
C4_Witness ==
    /\ max_retries = 3
    /\ outcomes = <<[kind |-> "timeout", code |-> 0],
                    [kind |-> "connection_error", code |-> 0]>>
    /\ slept = <<(<<10>>), (<<10>>)>>
    /\ fres = "running"

\* C5: an attempt that receives a status other than 200, 404, 429, 503 or
\* >= 500 ends the fetch as a failure: no further attempt follows it.
C5_OtherStatusEndsFetch ==
    \A j \in DOMAIN outcomes :
        IsOtherStatus(outcomes[j])
        => /\ j = Len(outcomes)
           /\ fres # "response"

\* C20: any two consecutive attempts are separated by a sleep of at least
\* RETRY_DELAY, and no sleep follows the attempt the call ended on.
C20_SleepBetweenAttempts ==
    /\ \A j \in 1..(Len(outcomes) - 1) :
          /\ slept[j] # <<>>
          /\ \A k \in DOMAIN slept[j] : slept[j][k] >= RETRY_DELAY
    /\ (fres # "running" /\ outcomes # <<>>) => slept[Len(outcomes)] = <<>>

----------------------------------------------------------------------------
(* get_structure_by_organization: the loop over the decoded match list *)

\* Kind "absent" stands for a league, entry or team that is missing, None,
\* empty, not an object, or an object without an id: the code skips all of
\* these alike.  An id of 0 is the JSON number 0: an id that is present but
\* falsy under "if league_id" / "if team_id".  <<>> stands for a clubs value
\* that is missing, empty or not a list.

ClubA == [isDict |-> TRUE, id |-> 9, name |-> "A"]
ClubB == [isDict |-> TRUE, id |-> 8, name |-> "B"]
\* an element of a clubs array that is not an object
NotAClub == [isDict |-> FALSE, id |-> 0, name |-> ""]

\* values of team['clubs']; <<>> stands for a missing, empty or non-list value
ClubArrays ==
    {<<>>, <<ClubA>>, <<NotAClub, ClubB>>, <<ClubA, ClubB>>, <<ClubA, ClubA>>}

\* match['league']: absent, or an object with an id (0 = falsy id) and a name
NoLeague == [kind |-> "absent", id |-> 0, name |-> ""]
League(i, n) == [kind |-> "dict", id |-> i, name |-> n]
LeagueVals ==
    {NoLeague, League(0, "N1"), League(1, "N1"), League(1, "N2"), League(2, "N1")}

\* match['home_league_entry'] / match['away_league_entry'] down to the team
\* object; "absent" = the entry or its team is missing or not an object
NoSide == [kind |-> "absent", id |-> 0, name |-> "", clubs |-> <<>>]
Team(i, n, cs) == [kind |-> "team", id |-> i, name |-> n, clubs |-> cs]

\* team objects: ids 1 and 2, each with every clubs array (the name varies
\* with the array), and one team whose id is falsy
TeamVals ==
    {Team(0, "a", <<ClubA>>)}
        \cup {Team(i, IF ClubB \in {cs[k] : k \in DOMAIN cs} THEN "b" ELSE "a", cs) :
                i \in {1, 2}, cs \in ClubArrays}

Match(l, h, a) == [isDict |-> TRUE, league |-> l, home |-> h, away |-> a]
NotAMatch == [isDict |-> FALSE, league |-> NoLeague, home |-> NoSide, away |-> NoSide]

\* the elements a match list may hold, by the number of team objects in them
Matches0 == {NotAMatch} \cup {Match(l, NoSide, NoSide) : l \in LeagueVals}
Matches1 ==
    {Match(l, t, NoSide) : l \in LeagueVals, t \in TeamVals}
        \cup {Match(l, NoSide, t) : l \in LeagueVals, t \in TeamVals}
Matches2 == {Match(l, h, a) : l \in LeagueVals, h \in TeamVals, a \in TeamVals}

MatchesUpTo(k) ==
    IF k <= 0 THEN Matches0
    ELSE IF k = 1 THEN Matches0 \cup Matches1
    ELSE Matches0 \cup Matches1 \cup Matches2

\* number of team objects in a match, and in a match list
SidesOf(m) ==
    (IF m.home.kind = "team" THEN 1 ELSE 0) + (IF m.away.kind = "team" THEN 1 ELSE 0)

RECURSIVE NumSides(_)
NumSides(ms) == IF ms = <<>> THEN 0 ELSE SidesOf(Head(ms)) + NumSides(Tail(ms))

\* the club record built per element of the clubs array (acronym,
\* short_name and logo_url are copied the same way as id and name)
ClubRecord(c) == [id |-> c.id, name |-> c.name]

NoClub == [id |-> 0, name |-> ""]

RECURSIVE ClubsListDistinct(_)
\* Variant of ClubsList: a club record already in the list is not added again.
ClubsListDistinct(clubs) ==
    IF clubs = <<>> THEN <<>>
    ELSE LET front == ClubsListDistinct(SubSeq(clubs, 1, Len(clubs) - 1))
             c == clubs[Len(clubs)]
         IN  IF ~c.isDict \/ (\E i \in DOMAIN front : front[i] = [id |-> c.id, name |-> c.name])
                THEN front
                ELSE Append(front, [id |-> c.id, name |-> c.name])

RECURSIVE ClubsList(_)
\* clubs_list: one record per element that is an object, in array order
ClubsList(clubs) ==
    IF clubs = <<>> THEN <<>>
    ELSE IF Head(clubs).isDict
        THEN <<ClubRecord(Head(clubs))>> \o ClubsList(Tail(clubs))
        ELSE ClubsList(Tail(clubs))

\* Variant of TeamData: a single club is stored as a one-element list too.
TeamDataListOnly(team) ==
    LET base == [id |-> team.id, name |-> team.name, keys |-> {},
                 club |-> [id |-> 0, name |-> ""], clubs |-> <<>>]
        cl == ClubsList(team.clubs)
    IN  IF Len(team.clubs) > 0 /\ Len(cl) >= 1
            THEN [base EXCEPT !.keys = {"clubs"}, !.clubs = cl]
            ELSE base

\* team_data of one occurrence; keys holds which of 'club' / 'clubs' is set
TeamData(team) ==
    LET base == [id |-> team.id, name |-> team.name, keys |-> {},
                 club |-> NoClub, clubs |-> <<>>]
        cl == ClubsList(team.clubs)
    IN  IF Len(team.clubs) > 0
            THEN IF Len(cl) = 1
                    THEN [base EXCEPT !.keys = {"club"}, !.club = cl[1]]
                 ELSE IF Len(cl) > 1
                    THEN [base EXCEPT !.keys = {"clubs"}, !.clubs = cl]
                 ELSE base
            ELSE base

\* Variant of DictPut: an existing key keeps its first value.
DictPutFirstWins(teams, td) ==
    IF \E i \in DOMAIN teams : teams[i].id = td.id
        THEN teams
        ELSE Append(teams, td)

\* teams[team_id] = team_data on a dict kept in insertion order: an existing
\* key keeps its place and gets the new value, a new key goes to the end
DictPut(teams, td) ==
    IF \E i \in DOMAIN teams : teams[i].id = td.id
        THEN [i \in DOMAIN teams |-> IF teams[i].id = td.id THEN td ELSE teams[i]]
        ELSE Append(teams, td)

\* the home block, and again the away block, of the loop body
IngestSide(teams, side) ==
    IF side.kind = "team" /\ side.id # 0
        THEN DictPut(teams, TeamData(side))
        ELSE teams

NewLeague(league) == [id |-> league.id, name |-> league.name, teams |-> <<>>]

\* Variant of ProcessMatch: the league entry is rebuilt with the name of
\* every match that carries its id.
ProcessMatchRename(ld, m) ==
    IF ~m.isDict THEN ld
    ELSE IF m.league.kind # "dict" THEN ld
    ELSE IF m.league.id = 0 THEN ld
    ELSE LET lid == m.league.id
             ld1 == IF lid \in DOMAIN ld
                       THEN [ld EXCEPT ![lid].name = m.league.name]
                       ELSE ld @@ (lid :> NewLeague(m.league))
             ld2 == [ld1 EXCEPT ![lid].teams = IngestSide(@, m.home)]
         IN  [ld2 EXCEPT ![lid].teams = IngestSide(@, m.away)]

\* Variant of ProcessMatch: the teams are written into every league known so
\* far instead of the league of the match.
ProcessMatchAnyLeague(ld, m) ==
    IF ~m.isDict THEN ld
    ELSE IF m.league.kind # "dict" THEN ld
    ELSE IF m.league.id = 0 THEN ld
    ELSE LET lid == m.league.id
             ld1 == IF lid \in DOMAIN ld THEN ld ELSE ld @@ (lid :> NewLeague(m.league))
         IN  [l \in DOMAIN ld1 |->
                [ld1[l] EXCEPT !.teams = IngestSide(IngestSide(@, m.home), m.away)]]

\* the body of "for match in matches"
ProcessMatch(ld, m) ==
    IF ~m.isDict THEN ld
    ELSE IF m.league.kind # "dict" THEN ld
    ELSE IF m.league.id = 0 THEN ld
    ELSE LET lid == m.league.id
             ld1 == IF lid \in DOMAIN ld THEN ld ELSE ld @@ (lid :> NewLeague(m.league))
             ld2 == [ld1 EXCEPT ![lid].teams = IngestSide(@, m.home)]
         IN  [ld2 EXCEPT ![lid].teams = IngestSide(@, m.away)]

\* place of td in an id-sorted list: behind every element whose id is not larger
InsertById(sorted, td) ==
    LET k == Cardinality({i \in DOMAIN sorted : sorted[i].id <= td.id})
    IN  SubSeq(sorted, 1, k) \o <<td>> \o SubSeq(sorted, k + 1, Len(sorted))

\* Variant of SortTeams: the list keeps the dict's insertion order.
SortTeamsUnsorted(teams) == teams

RECURSIVE SortTeams(_)
\* teams_list.sort(key=lambda x: x.get('id', 0)): stable, ascending by id
SortTeams(teams) ==
    IF teams = <<>> THEN <<>>
    ELSE InsertById(SortTeams(SubSeq(teams, 1, Len(teams) - 1)), teams[Len(teams)])

\* one iteration of the loop over matches
AggMatch ==
    /\ apc = "loop"
    /\ Len(matches) < MaxMatches
    /\ \E m \in MatchesUpTo(MaxSides - NumSides(matches)) :
        /\ matches' = Append(matches, m)
        /\ leagues_dict' = ProcessMatch(leagues_dict, m)
    /\ UNCHANGED <<apc, fetchVars, mainVars>>

\* the loop after the last match: every league's teams dict becomes a list
\* sorted by id
AggFinalize ==
    /\ apc = "loop"
    /\ leagues_dict' =
          [l \in DOMAIN leagues_dict |->
              [leagues_dict[l] EXCEPT !.teams = SortTeams(@)]]
    /\ apc' = "done"
    /\ UNCHANGED <<matches, fetchVars, mainVars>>

InitAgg ==
    /\ max_retries = 0
    /\ attempt = 0
    /\ outcomes = <<>>
    /\ slept = <<>>
    /\ fres = "running"
    /\ matches = <<>>
    /\ leagues_dict = <<>>
    /\ apc = "loop"
    /\ MainIdle

NextAgg == AggMatch \/ AggFinalize

SpecAgg == InitAgg /\ [][NextAgg]_vars

----------------------------------------------------------------------------
(* Properties of the aggregation, stated over the match list read so far *)

\* match m is an object whose league carries id l
Carries(m, l) == m.isDict /\ m.league.kind = "dict" /\ m.league.id = l

HasTeamId(side) == side.kind = "team" /\ side.id # 0

\* the team objects with an id in one match, home before away
SideOccs(m) ==
    (IF HasTeamId(m.home) THEN <<m.home>> ELSE <<>>)
        \o (IF HasTeamId(m.away) THEN <<m.away>> ELSE <<>>)

RECURSIVE OccsIn(_, _)
\* the team occurrences of the matches carrying league id l, in list order
OccsIn(ms, l) ==
    IF ms = <<>> THEN <<>>
    ELSE (IF Carries(Head(ms), l) THEN SideOccs(Head(ms)) ELSE <<>>)
            \o OccsIn(Tail(ms), l)

\* match m is not skipped: it is an object whose league carries an id
IsProcessed(m) == m.isDict /\ m.league.kind = "dict" /\ m.league.id # 0

RECURSIVE OccsAll(_)
\* the team occurrences of every match of the list that is not skipped,
\* whatever its league, in list order
OccsAll(ms) ==
    IF ms = <<>> THEN <<>>
    ELSE (IF IsProcessed(Head(ms)) THEN SideOccs(Head(ms)) ELSE <<>>)
            \o OccsAll(Tail(ms))

OccsOf(occs, tid) == SelectSeq(occs, LAMBDA o : o.id = tid)

LastOf(seq) == seq[Len(seq)]

\* team ids that occur in a sequence of occurrences
IdsOf(occs) == {occs[i].id : i \in DOMAIN occs}

\* the records of team tid in a league's output list
RecordsOf(teams, tid) == SelectSeq(teams, LAMBDA t : t.id = tid)

\* the club payloads of one occurrence, in array order
PayloadsOf(occ) ==
    LET items == SelectSeq(occ.clubs, LAMBDA c : c.isDict)
    IN  [i \in DOMAIN items |-> [id |-> items[i].id, name |-> items[i].name]]

RECURSIVE PayloadsAcross(_)
PayloadsAcross(occs) ==
    IF occs = <<>> THEN <<>> ELSE PayloadsOf(Head(occs)) \o PayloadsAcross(Tail(occs))

RECURSIVE FirstSeen(_)
\* the distinct elements of a sequence in first-seen order
FirstSeen(seq) ==
    IF seq = <<>> THEN <<>>
    ELSE LET front == FirstSeen(SubSeq(seq, 1, Len(seq) - 1))
             x == seq[Len(seq)]
         IN  IF \E i \in DOMAIN front : front[i] = x THEN front ELSE Append(front, x)

\* the club fields a team record must carry for the payload sequence ps,
\* for zero, one or two payloads
ClubFieldsAre(t, ps) ==
    /\ Len(ps) = 0 => t.keys = {}
    /\ Len(ps) = 1 => (t.keys = {"club"} /\ t.club = ps[1])
    /\ Len(ps) = 2 => (t.keys = {"clubs"} /\ t.clubs = ps)

\* C6 as stated: the output record of a team is the snapshot of the last
\* occurrence of its id anywhere in the match list (skipped matches aside).
C6_LastInListWins ==
    apc = "done" =>
        \A l \in DOMAIN leagues_dict :
            \A i \in DOMAIN leagues_dict[l].teams :
                LET t == leagues_dict[l].teams[i]
                IN  t = TeamData(LastOf(OccsOf(OccsAll(matches), t.id)))

\* C6 amended: in every league of the output, a team id that occurs in the
\* matches carrying that league's id has exactly one record, the snapshot of
\* its last occurrence among those matches (home before away in one match).
C6_LastInLeagueWins ==
    apc = "done" =>
        \A l \in DOMAIN leagues_dict :
            \A tid \in IdsOf(OccsIn(matches, l)) :
                RecordsOf(leagues_dict[l].teams, tid)
                    = <<TeamData(LastOf(OccsOf(OccsIn(matches, l), tid)))>>

\* C6 witness: team 1 played in league 1 first with club A, then with club B,
\* and its record shows club B only.
C6_Witness ==
    /\ apc = "done"
    /\ matches = <<Match(League(1, "N1"), Team(1, "a", <<ClubA>>), NoSide),
                   Match(League(1, "N1"), NoSide, Team(1, "b", <<NotAClub, ClubB>>))>>
    /\ leagues_dict[1].teams =
          <<[id |-> 1, name |-> "b", keys |-> {"club"},
             club |-> [id |-> 8, name |-> "B"], clubs |-> <<>>]>>

\* C7 as stated: the club fields of a team's record follow the distinct club
\* payloads the team occurred with across the whole batch, in first-seen order.
C7_ClubsAcrossBatch ==
    apc = "done" =>
        \A l \in DOMAIN leagues_dict :
            \A i \in DOMAIN leagues_dict[l].teams :
                LET t == leagues_dict[l].teams[i]
                IN  ClubFieldsAre(t,
                        FirstSeen(PayloadsAcross(OccsOf(OccsIn(matches, l), t.id))))

\* C7 amended: the club fields of a team's record follow the club objects of
\* the team's last occurrence in that league: two objects give `clubs` of
\* length 2 in array order, one gives `club`, none gives neither field.
C7_ClubsOfLastOccurrence ==
    apc = "done" =>
        \A l \in DOMAIN leagues_dict :
            \A i \in DOMAIN leagues_dict[l].teams :
                LET t == leagues_dict[l].teams[i]
                IN  ClubFieldsAre(t,
                        PayloadsOf(LastOf(OccsOf(OccsIn(matches, l), t.id))))

\* C7 witness: team 1 occurred with [A] and then with [A, B]; its record has
\* `clubs` = [A, B] and no `club`.
C7_Witness ==
    /\ apc = "done"
    /\ matches = <<Match(League(1, "N1"), Team(1, "a", <<ClubA>>),
                         Team(1, "b", <<ClubA, ClubB>>))>>
    /\ leagues_dict[1].teams[1].keys = {"clubs"}
    /\ leagues_dict[1].teams[1].clubs
          = <<[id |-> 9, name |-> "A"], [id |-> 8, name |-> "B"]>>

\* C8: the name of every league of the output is the name carried by the
\* first match of the list that mentions the league's id, at every point of
\* the loop and after it.
C8_FirstLeagueNameKept ==
    \A l \in DOMAIN leagues_dict :
        \E j \in DOMAIN matches :
            /\ Carries(matches[j], l)
            /\ \A i \in 1..(j - 1) : ~Carries(matches[i], l)
            /\ leagues_dict[l].name = matches[j].league.name

\* C8 witness: league 1 came first as "N1" and then as "N2"; it is "N1".
C8_Witness ==
    /\ apc = "done"
    /\ Len(matches) = 2
    /\ matches[1].league = League(1, "N1")
    /\ matches[2].league = League(1, "N2")
    /\ leagues_dict[1].name = "N1"

\* C9: every league of the output lists its teams in strictly ascending
\* order of team id (so no id twice).
C9_TeamsAscending ==
    apc = "done" =>
        \A l \in DOMAIN leagues_dict :
            LET ts == leagues_dict[l].teams
            IN  \A i, j \in DOMAIN ts : i < j => ts[i].id < ts[j].id

\* C9 witness: team 2 arrived before team 1 and the output lists 1, then 2.
C9_Witness ==
    /\ apc = "done"
    /\ Len(matches) = 1
    /\ matches[1].league.id = 1
    /\ matches[1].home.id = 2
    /\ matches[1].away.id = 1
    /\ Len(leagues_dict[1].teams) = 2
    /\ leagues_dict[1].teams[1].id = 1
    /\ leagues_dict[1].teams[2].id = 2

\* C10: every team of a league of the output has the id of the home or the
\* away team of some input match carrying that league's id.
C10_NoInventedTeamIds ==
    apc = "done" =>
        \A l \in DOMAIN leagues_dict :
            \A i \in DOMAIN leagues_dict[l].teams :
                \E j \in DOMAIN matches :
                    /\ Carries(matches[j], l)
                    /\ \/ (matches[j].home.kind = "team"
                              /\ matches[j].home.id = leagues_dict[l].teams[i].id)
                       \/ (matches[j].away.kind = "team"
                              /\ matches[j].away.id = leagues_dict[l].teams[i].id)

\* C10 witness: two leagues, each holding exactly the team of its own match.
C10_Witness ==
    /\ apc = "done"
    /\ DOMAIN leagues_dict = {1, 2}
    /\ Len(leagues_dict[1].teams) = 1
    /\ Len(leagues_dict[2].teams) = 1
    /\ leagues_dict[1].teams[1].id # leagues_dict[2].teams[1].id

\* the club objects of one occurrence, with repeats, in array order
ClubObjects(occ) == SelectSeq(occ.clubs, LAMBDA c : c.isDict)

\* number of distinct club records on one occurrence
NumDistinctClubs(occ) ==
    Cardinality({[id |-> ClubObjects(occ)[i].id, name |-> ClubObjects(occ)[i].name] :
                    i \in DOMAIN ClubObjects(occ)})

\* C18 as stated: a record built from an occurrence with club objects has a
\* singular `club` exactly when the occurrence shows one distinct club record,
\* and the full list under `clubs` otherwise; never both fields.
C18_SingularIffOneDistinct ==
    \A l \in DOMAIN leagues_dict :
        \A i \in DOMAIN leagues_dict[l].teams :
            LET t == leagues_dict[l].teams[i]
                occ == LastOf(OccsOf(OccsIn(matches, l), t.id))
            IN  /\ Cardinality(t.keys) <= 1
                /\ Len(ClubObjects(occ)) >= 1 =>
                      IF NumDistinctClubs(occ) = 1
                         THEN t.keys = {"club"}
                         ELSE t.keys = {"clubs"} /\ t.clubs = PayloadsOf(occ)

\* C18 amended: a record built from an occurrence with club objects has a
\* singular `club` exactly when the occurrence carries one club object,
\* repeats counted, and the full list under `clubs` otherwise; never both
\* fields.  Holds of every record during the loop and after it.
C18_SingularIffOneObject ==
    \A l \in DOMAIN leagues_dict :
        \A i \in DOMAIN leagues_dict[l].teams :
            LET t == leagues_dict[l].teams[i]
                occ == LastOf(OccsOf(OccsIn(matches, l), t.id))
            IN  /\ Cardinality(t.keys) <= 1
                /\ Len(ClubObjects(occ)) >= 1 =>
                      IF Len(ClubObjects(occ)) = 1
                         THEN t.keys = {"club"} /\ t.club = PayloadsOf(occ)[1]
                         ELSE t.keys = {"clubs"} /\ t.clubs = PayloadsOf(occ)

\* C18 witness: an occurrence whose clubs array holds club A twice gave a
\* record with `clubs` = [A, A].
C18_Witness ==
    /\ apc = "loop"
    /\ matches = <<Match(League(1, "N1"), Team(1, "a", <<ClubA, ClubA>>), NoSide)>>
    /\ leagues_dict[1].teams[1].keys = {"clubs"}
    /\ leagues_dict[1].teams[1].clubs
          = <<[id |-> 9, name |-> "A"], [id |-> 9, name |-> "A"]>>

\* C19: a match that is no object or has no league contributes nothing; every
\* match that is an object with a league id present, 0 included, has a league
\* entry for that id in the output; every side with a team id present has a
\* team with that id in that league.
C19_EveryLeagueIdYieldsEntry ==
    apc = "done" =>
        /\ \A l \in DOMAIN leagues_dict : \E j \in DOMAIN matches : Carries(matches[j], l)
        /\ \A j \in DOMAIN matches :
              (matches[j].isDict /\ matches[j].league.kind = "dict")
              => LET l == matches[j].league.id
                 IN  /\ l \in DOMAIN leagues_dict
                     /\ \A side \in {matches[j].home, matches[j].away} :
                           side.kind = "team"
                           => \E i \in DOMAIN leagues_dict[l].teams :
                                 leagues_dict[l].teams[i].id = side.id

----------------------------------------------------------------------------
(* get_structure_by_organization as a whole, and build_structure *)

REQUEST_DELAY == 2

RECURSIVE FoldMatches(_, _)
\* "for match in matches" over a whole list
FoldMatches(ld, ms) ==
    IF ms = <<>> THEN ld ELSE FoldMatches(ProcessMatch(ld, Head(ms)), Tail(ms))

\* the conversion of every league's teams dict to a list sorted by id
SortedLeagues(ld) == [l \in DOMAIN ld |-> [ld[l] EXCEPT !.teams = SortTeams(@)]]

OrgResponse(k, ms) == [kind |-> k, ms |-> ms]

\* What the call for one organization can meet: fetch_api_with_retry
\* returned None, a body that is no JSON, a body that is no list, a list of
\* matches, or an exception that escapes get_structure_by_organization.
\* For "raises", ms are the matches aggregated into the local leagues_dict
\* before the exception: none, or some when a later match carries an
\* unhashable id ("league_id not in leagues_dict" raises TypeError) or when
\* the final sort meets team ids of different types in one league.
OrgResponses ==
    {OrgResponse("fetch_none", <<>>),
     OrgResponse("bad_json", <<>>),
     OrgResponse("not_list", <<>>),
     OrgResponse("raises", <<>>),
     OrgResponse("raises", <<Match(League(1, "N1"), Team(1, "a", <<ClubA>>), NoSide)>>),
     OrgResponse("raises",
        <<Match(League(1, "N1"), Team(2, "a", <<>>), Team(1, "b", <<ClubA>>)),
          Match(League(2, "N2"), Team(1, "a", <<>>), NoSide)>>),
     OrgResponse("matches", <<>>),
     OrgResponse("matches", <<Match(NoLeague, Team(1, "a", <<ClubA>>), NoSide)>>),
     OrgResponse("matches",
        <<Match(League(1, "N1"), Team(2, "a", <<ClubA>>), Team(1, "a", <<>>))>>),
     OrgResponse("matches",
        <<Match(League(1, "N1"), Team(1, "a", <<ClubA>>), NoSide),
          Match(League(2, "N1"), NoSide, Team(1, "b", <<ClubA, ClubB>>))>>)}

\* get_structure_by_organization: the returned 'leagues' mapping, or raised.
\* local is the function's own leagues_dict when it returns or raises; the
\* caller receives nothing of it when the call raises.
GetStructure(resp) ==
    IF resp.kind = "raises"
        THEN [raised |-> TRUE, leagues |-> <<>>,
              local |-> FoldMatches(<<>>, resp.ms)]
    ELSE IF resp.kind \in {"fetch_none", "bad_json", "not_list"}
        THEN [raised |-> FALSE, leagues |-> <<>>, local |-> <<>>]
    ELSE LET ld == SortedLeagues(FoldMatches(<<>>, resp.ms))
         IN  [raised |-> FALSE, leagues |-> ld, local |-> ld]

\* the entry written in the try block: id and the converted league mapping
OrgEntry(i, r) ==
    [id |-> i,
     leagues |-> [l \in DOMAIN r.leagues |->
                    [id |-> r.leagues[l].id, name |-> r.leagues[l].name,
                     teams |-> r.leagues[l].teams]],
     error |-> FALSE]

\* Variant of ErrorEntry: the entry of the except block has no 'error' key.
ErrorEntryPlain(i) == [id |-> i, leagues |-> <<>>, error |-> FALSE]

\* the entry written in the except block; error = the 'error' key is set
ErrorEntry(i) == [id |-> i, leagues |-> <<>>, error |-> TRUE]

\* Variant of EntryFor: a raising call leaves what it had aggregated in the
\* entry, next to the error annotation.
EntryForPartial(i, r) ==
    IF r.raised
        THEN [id |-> i,
              leagues |-> [l \in DOMAIN r.local |->
                             [id |-> r.local[l].id, name |-> r.local[l].name,
                              teams |-> r.local[l].teams]],
              error |-> TRUE]
        ELSE OrgEntry(i, r)

\* the entry of an organization after its iteration: the try block's entry
\* when the call returned, the except block's entry when it raised
EntryFor(i, r) == IF r.raised THEN ErrorEntry(i) ELSE OrgEntry(i, r)

\* Variant of CountsAsSuccess: every organization whose call returned counts.
CountsAsSuccessOnReturn(r) == ~r.raised

\* "if org_data['leagues']" of the try block; the except block counts failed
CountsAsSuccess(r) == ~r.raised /\ DOMAIN r.leagues # {}

\* Variant of RecordEntry: an entry without leagues is left out.
RecordEntryIfLeagues(orgs, i, e) ==
    IF DOMAIN e.leagues = {} THEN orgs ELSE (i :> e) @@ orgs

\* structure['organizations'][org_name] = entry
RecordEntry(orgs, i, e) == (i :> e) @@ orgs

\* Variant of PacingAfter: the delay follows the last organization as well.
PacingAfterEvery(i, n) == <<[ev |-> "sleep", arg |-> REQUEST_DELAY]>>

\* "if current_org < total_orgs: time.sleep(REQUEST_DELAY)"
PacingAfter(i, n) ==
    IF i < n THEN <<[ev |-> "sleep", arg |-> REQUEST_DELAY]>> ELSE <<>>

\* One iteration of "for org_name, org_id in organizations.items()".
\* Organizations are named 1..n_orgs in declared order.
BuildOrg ==
    /\ mpc = "build"
    /\ current_org < n_orgs
    /\ \E resp \in OrgResponses :
        LET i == current_org + 1
            r == GetStructure(resp)
        IN  /\ current_org' = i
            /\ resps' = Append(resps, resp)
            /\ organizations' =
                  RecordEntry(organizations, i, EntryFor(i, r))
            /\ successful' = IF CountsAsSuccess(r) THEN successful + 1 ELSE successful
            /\ failed' = IF CountsAsSuccess(r) THEN failed ELSE failed + 1
            /\ blog' = blog \o <<[ev |-> "fetch", arg |-> i]>> \o PacingAfter(i, n_orgs)
    /\ UNCHANGED <<n_orgs, saveVars, mpc, had_prior, seen, exitcode, fetchVars, aggVars>>

\* build_structure returns the structure and main calls save_structure
BuildReturn ==
    /\ mpc = "build"
    /\ current_org = n_orgs
    /\ mpc' = "save_mkdir"
    /\ UNCHANGED <<buildVars, saveVars, had_prior, seen, exitcode, fetchVars, aggVars>>

----------------------------------------------------------------------------
(* save_structure and main *)

\* main leaves through sys.exit(code)
Exit(code) == mpc' = "exit" /\ exitcode' = code

\* get_organizations fails (file missing, invalid JSON, no dictionary):
\* sys.exit(1)
LoadConfigFails ==
    /\ mpc = "load"
    /\ Exit(1)
    /\ UNCHANGED <<buildVars, saveVars, had_prior, seen, fetchVars, aggVars>>

\* get_organizations returns the mapping; main exits with 1 when it is empty
\* and calls build_structure otherwise
LoadConfig ==
    /\ mpc = "load"
    /\ IF n_orgs = 0 THEN Exit(1) ELSE mpc' = "build" /\ exitcode' = exitcode
    /\ UNCHANGED <<buildVars, saveVars, had_prior, seen, fetchVars, aggVars>>

\* errors of the file system calls
FsErrors == {"PermissionError", "OSError"}

\* The except chain of save_structure.  PermissionError and OSError return
\* False.  Any other exception reaches "except json.JSONEncodeError"; the
\* json module has no such name, so evaluating the clause raises
\* AttributeError and the call ends by raising.
SaveExcept(exc) == IF exc \in FsErrors THEN "false" ELSE "raised"

\* a step of save_structure raises exc
SaveFails(step, exc) ==
    /\ failed_step' = step
    /\ save_ret' = SaveExcept(exc)
    /\ mpc' = "saved"

\* "if not os.path.exists(data_dir): os.makedirs(data_dir)"; the directory
\* exists when it holds a snapshot
SaveMkdir ==
    /\ mpc = "save_mkdir"
    /\ \/ /\ mpc' = "save_open"
          /\ UNCHANGED <<save_ret, failed_step>>
       \/ /\ snapshot = "none"
          /\ \E exc \in FsErrors : SaveFails("makedirs", exc)
    /\ UNCHANGED <<buildVars, snapshot, tmpfile, had_prior, seen, exitcode,
                   fetchVars, aggVars>>

\* the isinstance check passes for the dict build_structure returns;
\* open(temp_file, 'w') creates or truncates the temporary file
SaveOpenTemp ==
    /\ mpc = "save_open"
    /\ \/ /\ mpc' = "save_dump"
          /\ tmpfile' = "partial"
          /\ UNCHANGED <<save_ret, failed_step>>
       \/ /\ \E exc \in FsErrors : SaveFails("open", exc)
          /\ UNCHANGED tmpfile
    /\ UNCHANGED <<buildVars, snapshot, had_prior, seen, exitcode, fetchVars, aggVars>>

\* json.dump into the temporary file and the close at the end of the with
\* block.  The file is opened with encoding utf-8 and ensure_ascii is False:
\* a name holding a lone surrogate (JSON "\\ud800") raises
\* UnicodeEncodeError, which is no OSError.
SaveDump ==
    /\ mpc = "save_dump"
    /\ \/ /\ mpc' = "save_remove"
          /\ tmpfile' = "complete"
          /\ UNCHANGED <<save_ret, failed_step>>
       \/ /\ \E exc \in {"OSError", "UnicodeEncodeError"} : SaveFails("dump", exc)
          /\ UNCHANGED tmpfile
    /\ UNCHANGED <<buildVars, snapshot, had_prior, seen, exitcode, fetchVars, aggVars>>

\* "if os.path.exists(output_file): os.remove(output_file)"
SaveRemove ==
    /\ mpc = "save_remove"
    /\ \/ /\ snapshot = "none"
          /\ mpc' = "save_rename"
          /\ UNCHANGED <<save_ret, failed_step, snapshot>>
       \/ /\ snapshot # "none"
          /\ mpc' = "save_rename"
          /\ snapshot' = "none"
          /\ UNCHANGED <<save_ret, failed_step>>
       \/ /\ snapshot # "none"
          /\ \E exc \in FsErrors : SaveFails("remove", exc)
          /\ UNCHANGED snapshot
    /\ UNCHANGED <<buildVars, tmpfile, had_prior, seen, exitcode, fetchVars, aggVars>>

\* os.rename(temp_file, output_file), then the prints and "return True"
SaveRename ==
    /\ mpc = "save_rename"
    /\ \/ /\ snapshot' = "new"
          /\ tmpfile' = "none"
          /\ save_ret' = "true"
          /\ mpc' = "saved"
          /\ UNCHANGED failed_step
       \/ /\ \E exc \in FsErrors : SaveFails("rename", exc)
          /\ UNCHANGED <<snapshot, tmpfile>>
    /\ UNCHANGED <<buildVars, had_prior, seen, exitcode, fetchVars, aggVars>>

\* main after save_structure: falls off the end on success, sys.exit(1) on
\* False, and "except Exception" with sys.exit(1) when the call raised
MainFinish ==
    /\ mpc = "saved"
    /\ Exit(IF save_ret = "true" THEN 0 ELSE 1)
    /\ UNCHANGED <<buildVars, saveVars, had_prior, seen, fetchVars, aggVars>>

\* KeyboardInterrupt anywhere inside main's try block: no handler below main
\* catches it ("except Exception" does not), main exits with 130
Interrupt ==
    /\ mpc \notin {"idle", "exit"}
    /\ Exit(130)
    /\ UNCHANGED <<buildVars, saveVars, had_prior, seen, fetchVars, aggVars>>

SavePcs == {"save_mkdir", "save_open", "save_dump", "save_remove", "save_rename"}

\* another process looks at the snapshot path while save_structure runs
ReaderRead ==
    /\ mpc \in SavePcs
    /\ seen' = snapshot
    /\ UNCHANGED <<buildVars, saveVars, mpc, had_prior, exitcode, fetchVars, aggVars>>

InitMain ==
    /\ n_orgs \in 0..MaxOrgs
    /\ current_org = 0
    /\ organizations = <<>>
    /\ successful = 0
    /\ failed = 0
    /\ resps = <<>>
    /\ blog = <<>>
    /\ mpc = "load"
    /\ save_ret = "running"
    /\ failed_step = "none"
    /\ had_prior \in BOOLEAN
    /\ snapshot = IF had_prior THEN "prior" ELSE "none"
    /\ tmpfile = "none"
    /\ seen = "unread"
    /\ exitcode = -1
    /\ max_retries = 0
    /\ attempt = 0
    /\ outcomes = <<>>
    /\ slept = <<>>
    /\ fres = "running"
    /\ matches = <<>>
    /\ leagues_dict = <<>>
    /\ apc = "loop"

NextMain ==
    \/ LoadConfigFails
    \/ LoadConfig
    \/ BuildOrg
    \/ BuildReturn
    \/ SaveMkdir
    \/ SaveOpenTemp
    \/ SaveDump
    \/ SaveRemove
    \/ SaveRename
    \/ MainFinish
    \/ Interrupt
    \/ ReaderRead

SpecMain == InitMain /\ [][NextMain]_vars

----------------------------------------------------------------------------
(* Properties of build_structure *)

\* the loop of build_structure has run over every configured organization
BuildDone == n_orgs >= 1 /\ current_org = n_orgs /\ mpc \notin {"idle", "load"}

NonEmptyOrgs == {i \in DOMAIN organizations : DOMAIN organizations[i].leagues # {}}
EmptyOrgs == {i \in DOMAIN organizations : DOMAIN organizations[i].leagues = {}}

\* C11: successful_organizations is the number of organizations whose
\* leagues mapping in the output is non-empty, failed_organizations the
\* number whose mapping is empty, whatever each organization met; after the
\* loop the two add up to total_organizations (so a run without any success
\* ends with 0 and total_organizations).
C11_CountersMatchOutput ==
    /\ successful = Cardinality(NonEmptyOrgs)
    /\ failed = Cardinality(EmptyOrgs)
    /\ BuildDone => successful + failed = n_orgs
    /\ (BuildDone /\ NonEmptyOrgs = {}) => (successful = 0 /\ failed = n_orgs)

C11_Witness ==
    /\ BuildDone
    /\ n_orgs = 3
    /\ resps[1].kind = "raises"
    /\ resps[2].kind = "matches" /\ Len(resps[2].ms) = 2
    /\ resps[3].kind = "bad_json"
    /\ successful = 1
    /\ failed = 2

FetchEvents == SelectSeq(blog, LAMBDA e : e.ev = "fetch")

\* the step in which the call for an organization raises
RaiseStep ==
    /\ current_org' = current_org + 1
    /\ resps'[current_org'].kind = "raises"

\* C12: when the call for organization i raises, the error is caught (the
\* loop goes on, nothing exits), i is counted failed and not successful, its
\* entry carries the error annotation with empty leagues; save_structure is
\* only reached after every organization was fetched, and the organizations
\* are fetched and recorded in declared order.
C12_RaiseIsIsolated ==
    /\ [][RaiseStep =>
            /\ failed' = failed + 1
            /\ successful' = successful
            /\ mpc' = "build"
            /\ exitcode' = exitcode
            /\ organizations'[current_org'].error
            /\ DOMAIN organizations'[current_org'].leagues = {}]_vars
    /\ [](/\ \A i \in 1..current_org :
                resps[i].kind = "raises" =>
                    /\ organizations[i].error
                    /\ DOMAIN organizations[i].leagues = {}
                    /\ BuildDone => \A j \in (i + 1)..n_orgs :
                            /\ j \in DOMAIN organizations
                            /\ organizations[j].id = j
                            /\ organizations[j].error <=> resps[j].kind = "raises"
          /\ Len(FetchEvents) = current_org
          /\ \A k \in 1..Len(FetchEvents) : FetchEvents[k].arg = k
          /\ mpc \in SavePcs \cup {"saved"} => current_org = n_orgs)

C12_Witness ==
    /\ BuildDone
    /\ n_orgs = 3
    /\ resps[1].kind = "raises"
    /\ organizations[1].error
    /\ resps[2].kind = "matches" /\ Len(resps[2].ms) = 1
    /\ DOMAIN organizations[2].leagues # {}
    /\ resps[3].kind = "fetch_none"
    /\ failed = 2

\* organizations whose call returned without a league
ZeroLeagueOrgs ==
    {i \in 1..current_org :
        resps[i].kind # "raises" /\ DOMAIN GetStructure(resps[i]).leagues = {}}

\* C13: the keys of the output's organizations mapping are the organizations
\* processed so far, and all configured ones after the loop; an organization
\* without a discovered league is counted failed and is present with an
\* empty leagues mapping.
C13_EveryOrganizationPresent ==
    /\ DOMAIN organizations = 1..current_org
    /\ BuildDone => DOMAIN organizations = 1..n_orgs
    /\ \A i \in ZeroLeagueOrgs :
          /\ i \in DOMAIN organizations
          /\ organizations[i].id = i
          /\ DOMAIN organizations[i].leagues = {}
    /\ failed >= Cardinality(ZeroLeagueOrgs)

C13_Witness ==
    /\ BuildDone
    /\ n_orgs = 3
    /\ resps[1].kind = "fetch_none"
    /\ resps[2].kind = "not_list"
    /\ resps[3].kind = "matches" /\ Len(resps[3].ms) = 1
    /\ ZeroLeagueOrgs = {1, 2, 3}
    /\ DOMAIN organizations = {1, 2, 3}
    /\ failed = 3

SleepEvents == {p \in DOMAIN blog : blog[p].ev = "sleep"}

\* C14: every pacing delay is REQUEST_DELAY long and stands between the
\* fetch of an organization that is not the last and the fetch of the next
\* one; every such fetch is followed by a delay; after the loop there were
\* exactly n - 1 delays and nothing follows the last organization's fetch.
C14_PacingBetweenOrganizations ==
    /\ \A p \in SleepEvents :
          /\ blog[p].arg = REQUEST_DELAY
          /\ p > 1
          /\ blog[p - 1].ev = "fetch"
          /\ blog[p - 1].arg < n_orgs
          /\ p < Len(blog) =>
                blog[p + 1] = [ev |-> "fetch", arg |-> blog[p - 1].arg + 1]
    /\ \A p \in DOMAIN blog :
          (blog[p].ev = "fetch" /\ blog[p].arg < n_orgs) =>
              (p < Len(blog) /\ blog[p + 1].ev = "sleep")
    /\ BuildDone =>
          /\ Cardinality(SleepEvents) = n_orgs - 1
          /\ blog[Len(blog)] = [ev |-> "fetch", arg |-> n_orgs]

C14_Witness ==
    /\ BuildDone
    /\ n_orgs = 3
    /\ Len(blog) = 5
    /\ SleepEvents = {2, 4}
    /\ resps[1].kind = "raises"
    /\ resps[2].kind = "fetch_none"
    /\ resps[3].kind = "matches" /\ Len(resps[3].ms) = 2

\* C21: when the call for an organization raises, whatever it had already
\* aggregated, the organization's entry has an empty leagues mapping and the
\* error annotation, and the entries recorded for earlier organizations are
\* the same after the step as before; this stays so until the end of the run.
C21_RaiseLeavesNoPartialTree ==
    /\ [][RaiseStep =>
            /\ DOMAIN organizations'[current_org'].leagues = {}
            /\ organizations'[current_org'].error
            /\ organizations'[current_org'].id = current_org'
            /\ \A j \in DOMAIN organizations :
                  /\ j \in DOMAIN organizations'
                  /\ organizations'[j] = organizations[j]]_vars
    /\ [](\A i \in 1..current_org :
            /\ resps[i].kind = "raises" =>
                  organizations[i] = [id |-> i, leagues |-> <<>>, error |-> TRUE]
            /\ resps[i].kind # "raises" =>
                  organizations[i] = OrgEntry(i, GetStructure(resps[i])))

C21_Witness ==
    /\ BuildDone
    /\ n_orgs = 3
    /\ resps[1].kind = "matches" /\ Len(resps[1].ms) = 2
    /\ DOMAIN organizations[1].leagues = {1, 2}
    /\ resps[2].kind = "raises" /\ Len(resps[2].ms) = 2
    /\ DOMAIN GetStructure(resps[2]).local = {1, 2}
    /\ DOMAIN organizations[2].leagues = {}
    /\ organizations[2].error
    /\ resps[3].kind = "raises" /\ Len(resps[3].ms) = 1

----------------------------------------------------------------------------
(* Properties of save_structure and main *)

C16_ReaderSeesWholeSnapshot ==
    (had_prior /\ seen # "unread") => seen \in {"prior", "new"}

\* C17: when a step of save_structure fails, save_structure returns False
\* and the prior snapshot is still on disk.
C17_FailedSaveKeepsPrior ==
    failed_step # "none" =>
        /\ save_ret = "false"
        /\ had_prior => snapshot = "prior"

====
